---------------------------- MODULE Spec2Model ----------------------------
(***************************************************************************)
(* Model of DerivTradingBot (src/trader1.py): the candle window, the       *)
(* double-top / double-bottom detector and the single position slot.       *)
(*                                                                         *)
(* Prices are integers in price units (the code holds Python floats; the   *)
(* tolerance test |p1-p2|/p1 <= 0.002 is kept as the exact rational        *)
(* comparison |p1-p2|*1000 <= 2*p1).  List indices are 0-based as in the   *)
(* code; At(s, i) reads element i of a 0-based list.                       *)
(***************************************************************************)
EXTENDS Integers, Sequences, FiniteSets, TLC

VARIABLES
    candles,    \* self.candles: the window, a sequence of candle records
    position,   \* self.position: None or the open position
    ev,         \* the last message handled and what its handler did
    hist,       \* every candle update_candle has accepted, in arrival order
    steps       \* number of messages handled so far

vars == <<candles, position, ev, hist, steps>>

---------------------------------------------------------------------------
(* Program constants, src/trader1.py __init__ and detector defaults.       *)

lookback_period == 50
ToleranceNum == 2
ToleranceDen == 1000
min_candles_between == 10
MinCandles == 20
Order == 3

(* Bounds of the model.                                                    *)
MaxSteps == 3       \* messages handled in a run of Spec
MaxTail == 7        \* candles following the 14-candle example series
MaxStream == 52     \* updates fed in a run of SpecStream
MaxSkips == 1       \* time gaps of two periods in a run of SpecStream
MaxDetectSteps == 2 \* messages handled in a run of SpecDetect
MaxLen == 7         \* length of the series given to find_peaks in SpecPeaks
MaxOrder == 3       \* largest order given to find_peaks in SpecPeaks

None == [type |-> "None"]
NoPattern == [pattern |-> "none"]
DivisionError == [pattern |-> "error", err |-> "ZeroDivisionError"]

---------------------------------------------------------------------------
(* Generic helpers standing for Python built-ins.                          *)

At(s, i) == s[i + 1]
Last(s) == s[Len(s)]
Abs(x) == IF x < 0 THEN -x ELSE x
Max2(a, b) == IF a >= b THEN a ELSE b
Min2(a, b) == IF a <= b THEN a ELSE b

RECURSIVE MinOver(_, _, _)
\* min(f(j) for j in range(lo, hi + 1)) over a 0-based list, lo <= hi
MinOver(s, lo, hi) ==
    IF lo = hi THEN At(s, lo) ELSE Min2(At(s, lo), MinOver(s, lo + 1, hi))

RECURSIVE MaxOver(_, _, _)
MaxOver(s, lo, hi) ==
    IF lo = hi THEN At(s, lo) ELSE Max2(At(s, lo), MaxOver(s, lo + 1, hi))

---------------------------------------------------------------------------
(* Wire values.  A field of an incoming message is a numeric text, a       *)
(* non-numeric text, or absent.  float() yields the number of a numeric    *)
(* text and raises ValueError on any other text; reading an absent key     *)
(* raises KeyError.                                                        *)

Num(n) == [k |-> "num", v |-> n]
Text == [k |-> "text", v |-> 0]
Missing == [k |-> "missing", v |-> 0]

float(w) == w.v

FieldErr(w) ==
    IF w.k = "missing" THEN "KeyError"
    ELSE IF w.k = "text" THEN "ValueError"
    ELSE "none"

\* The first failure met while building the candle dict, fields in the
\* order the code evaluates them: open, high, low, close.
ParseErr(m) ==
    IF FieldErr(m.open) # "none" THEN FieldErr(m.open)
    ELSE IF FieldErr(m.high) # "none" THEN FieldErr(m.high)
    ELSE IF FieldErr(m.low) # "none" THEN FieldErr(m.low)
    ELSE FieldErr(m.close)

Candle(m) ==
    [time |-> m.epoch, open |-> float(m.open), high |-> float(m.high),
     low |-> float(m.low), close |-> float(m.close)]

---------------------------------------------------------------------------
(* find_peaks / find_troughs                                               *)

\* a peak that must exceed its neighbours strictly
PeakAtStrict(data, order, i) ==
    /\ \A j \in 1..order : At(data, i) > At(data, i - j)
    /\ \A j \in 1..order : At(data, i) > At(data, i + j)

PeakAt(data, order, i) ==
    /\ \A j \in 1..order : At(data, i) >= At(data, i - j)
    /\ \A j \in 1..order : At(data, i) >= At(data, i + j)

TroughAt(data, order, i) ==
    /\ \A j \in 1..order : At(data, i) <= At(data, i - j)
    /\ \A j \in 1..order : At(data, i) <= At(data, i + j)

RECURSIVE PeaksFrom(_, _, _)
PeaksFrom(data, order, i) ==
    IF i >= Len(data) - order THEN <<>>
    ELSE (IF PeakAt(data, order, i) THEN <<i>> ELSE <<>>)
         \o PeaksFrom(data, order, i + 1)

find_peaks(data, order) == PeaksFrom(data, order, order)

RECURSIVE TroughsFrom(_, _, _)
TroughsFrom(data, order, i) ==
    IF i >= Len(data) - order THEN <<>>
    ELSE (IF TroughAt(data, order, i) THEN <<i>> ELSE <<>>)
         \o TroughsFrom(data, order, i + 1)

find_troughs(data, order) == TroughsFrom(data, order, order)

Highs(cs) == [i \in 1..Len(cs) |-> cs[i].high]
Lows(cs) == [i \in 1..Len(cs) |-> cs[i].low]

\* the difference taken relative to the second price
WithinToleranceOfSecond(p1, p2) ==
    IF p2 > 0 THEN Abs(p1 - p2) * ToleranceDen <= ToleranceNum * p2
    ELSE Abs(p1 - p2) * ToleranceDen >= ToleranceNum * p2

\* price_diff <= self.tolerance, for p1 # 0
WithinTolerance(p1, p2) ==
    IF p1 > 0 THEN Abs(p1 - p2) * ToleranceDen <= ToleranceNum * p1
    ELSE Abs(p1 - p2) * ToleranceDen >= ToleranceNum * p1

---------------------------------------------------------------------------
(* detect_double_top                                                       *)

\* the signal with the target projected at profit_target_ratio = 2
TopSignalRatio(cs, p1, p2, neckline) ==
    [pattern |-> "double_top", peak1 |-> p1, peak2 |-> p2,
     neckline |-> neckline, entry |-> Last(cs).close,
     stop_loss |-> Max2(p1, p2),
     take_profit |-> neckline - 2 * (Max2(p1, p2) - neckline)]

TopSignal(cs, p1, p2, neckline) ==
    [pattern |-> "double_top", peak1 |-> p1, peak2 |-> p2,
     neckline |-> neckline, entry |-> Last(cs).close,
     stop_loss |-> Max2(p1, p2),
     take_profit |-> neckline - (Max2(p1, p2) - neckline)]

RECURSIVE TopScanNoGap(_, _, _)
\* the loop without the min_candles_between check
TopScanNoGap(cs, peaks, i) ==
    IF i < 0 THEN NoPattern
    ELSE LET peak1_idx == At(peaks, i)
             peak2_idx == At(peaks, i + 1)
             peak1_price == At(Highs(cs), peak1_idx)
             peak2_price == At(Highs(cs), peak2_idx)
             neckline == MinOver(Lows(cs), peak1_idx, peak2_idx)
         IN  IF peak1_price = 0 THEN DivisionError
             ELSE IF /\ WithinTolerance(peak1_price, peak2_price)
                     /\ Last(cs).close < neckline
                 THEN TopSignal(cs, peak1_price, peak2_price, neckline)
             ELSE TopScanNoGap(cs, peaks, i - 1)

RECURSIVE TopScan(_, _, _)
\* the for loop over i = len(peaks) - 2 down to 0
TopScan(cs, peaks, i) ==
    IF i < 0 THEN NoPattern
    ELSE LET peak1_idx == At(peaks, i)
             peak2_idx == At(peaks, i + 1)
             peak1_price == At(Highs(cs), peak1_idx)
             peak2_price == At(Highs(cs), peak2_idx)
             neckline == MinOver(Lows(cs), peak1_idx, peak2_idx)
         IN  IF peak2_idx - peak1_idx < min_candles_between
                 THEN TopScan(cs, peaks, i - 1)
             ELSE IF peak1_price = 0 THEN DivisionError
             ELSE IF /\ WithinTolerance(peak1_price, peak2_price)
                     /\ Last(cs).close < neckline
                 THEN TopSignal(cs, peak1_price, peak2_price, neckline)
             ELSE TopScan(cs, peaks, i - 1)

detect_double_top(cs) ==
    IF Len(cs) < MinCandles THEN NoPattern
    ELSE LET peaks == find_peaks(Highs(cs), Order)
         IN  IF Len(peaks) < 2 THEN NoPattern
             ELSE TopScan(cs, peaks, Len(peaks) - 2)

---------------------------------------------------------------------------
(* detect_double_bottom                                                    *)

\* the signal with the stop at the higher of the two troughs
BottomSignalHighStop(cs, t1, t2, neckline) ==
    [pattern |-> "double_bottom", trough1 |-> t1, trough2 |-> t2,
     neckline |-> neckline, entry |-> Last(cs).close,
     stop_loss |-> Max2(t1, t2),
     take_profit |-> neckline + (neckline - Max2(t1, t2))]

BottomSignal(cs, t1, t2, neckline) ==
    [pattern |-> "double_bottom", trough1 |-> t1, trough2 |-> t2,
     neckline |-> neckline, entry |-> Last(cs).close,
     stop_loss |-> Min2(t1, t2),
     take_profit |-> neckline + (neckline - Min2(t1, t2))]

RECURSIVE BottomScanAtNeckline(_, _, _)
\* the loop accepting a close that only touches the neckline
BottomScanAtNeckline(cs, troughs, i) ==
    IF i < 0 THEN NoPattern
    ELSE LET trough1_idx == At(troughs, i)
             trough2_idx == At(troughs, i + 1)
             trough1_price == At(Lows(cs), trough1_idx)
             trough2_price == At(Lows(cs), trough2_idx)
             neckline == MaxOver(Highs(cs), trough1_idx, trough2_idx)
         IN  IF trough2_idx - trough1_idx < min_candles_between
                 THEN BottomScanAtNeckline(cs, troughs, i - 1)
             ELSE IF trough1_price = 0 THEN DivisionError
             ELSE IF /\ WithinTolerance(trough1_price, trough2_price)
                     /\ Last(cs).close >= neckline
                 THEN BottomSignal(cs, trough1_price, trough2_price, neckline)
             ELSE BottomScanAtNeckline(cs, troughs, i - 1)

RECURSIVE BottomScan(_, _, _)
BottomScan(cs, troughs, i) ==
    IF i < 0 THEN NoPattern
    ELSE LET trough1_idx == At(troughs, i)
             trough2_idx == At(troughs, i + 1)
             trough1_price == At(Lows(cs), trough1_idx)
             trough2_price == At(Lows(cs), trough2_idx)
             neckline == MaxOver(Highs(cs), trough1_idx, trough2_idx)
         IN  IF trough2_idx - trough1_idx < min_candles_between
                 THEN BottomScan(cs, troughs, i - 1)
             ELSE IF trough1_price = 0 THEN DivisionError
             ELSE IF /\ WithinTolerance(trough1_price, trough2_price)
                     /\ Last(cs).close > neckline
                 THEN BottomSignal(cs, trough1_price, trough2_price, neckline)
             ELSE BottomScan(cs, troughs, i - 1)

detect_double_bottom(cs) ==
    IF Len(cs) < MinCandles THEN NoPattern
    ELSE LET troughs == find_troughs(Lows(cs), Order)
         IN  IF Len(troughs) < 2 THEN NoPattern
             ELSE BottomScan(cs, troughs, Len(troughs) - 2)

---------------------------------------------------------------------------
(* execute_trade: returns the new position and what the call did.          *)

\* execute_trade without the "already in position" guard
execute_trade_unguarded(pos, trade_type, signal) ==
    [position |-> [type |-> trade_type, entry |-> signal.entry,
                   stop_loss |-> signal.stop_loss,
                   take_profit |-> signal.take_profit],
     outcome |-> "executed"]

execute_trade(pos, trade_type, signal) ==
    IF pos # None
        THEN [position |-> pos, outcome |-> "skipped_existing_position"]
    ELSE [position |-> [type |-> trade_type, entry |-> signal.entry,
                        stop_loss |-> signal.stop_loss,
                        take_profit |-> signal.take_profit],
          outcome |-> "executed"]

Call(pos, trade_type, signal) ==
    [type |-> trade_type, signal |-> signal,
     outcome |-> execute_trade(pos, trade_type, signal).outcome]

---------------------------------------------------------------------------
(* analyze_patterns: one detection pass over cs.  The result carries the   *)
(* position it leaves, the exception that ended it (if any), the two       *)
(* detector results and the execute_trade calls it made, in order.         *)

Result(cs, pos, err, branch, passes, top, bottom, exec) ==
    [candles |-> cs, position |-> pos, err |-> err, branch |-> branch,
     passes |-> passes, top |-> top, bottom |-> bottom, exec |-> exec]

\* a pass that looks for a double bottom only when it found no double top
analyze_patterns_first_only(cs, pos, branch) ==
    IF cs = <<>>
        THEN Result(cs, pos, "IndexError", branch, 1, NoPattern, NoPattern, <<>>)
    ELSE
    LET top == detect_double_top(cs)
        bottom == detect_double_bottom(cs)
    IN  IF top.pattern = "error"
            THEN Result(cs, pos, top.err, branch, 1, NoPattern, NoPattern, <<>>)
        ELSE IF top.pattern = "double_top"
            THEN Result(cs, execute_trade(pos, "PUT", top).position, "none",
                        branch, 1, top, NoPattern, <<Call(pos, "PUT", top)>>)
        ELSE IF bottom.pattern = "error"
            THEN Result(cs, pos, bottom.err, branch, 1, top, NoPattern, <<>>)
        ELSE IF bottom.pattern = "double_bottom"
            THEN Result(cs, execute_trade(pos, "CALL", bottom).position, "none",
                        branch, 1, top, bottom, <<Call(pos, "CALL", bottom)>>)
        ELSE Result(cs, pos, "none", branch, 1, top, bottom, <<>>)

analyze_patterns(cs, pos, branch) ==
    IF cs = <<>>
        \* self.candles[-1] on an empty list
        THEN Result(cs, pos, "IndexError", branch, 1, NoPattern, NoPattern, <<>>)
    ELSE
    LET top == detect_double_top(cs)
        isTop == top.pattern = "double_top"
        pos1 == IF isTop THEN execute_trade(pos, "PUT", top).position ELSE pos
        exec1 == IF isTop THEN <<Call(pos, "PUT", top)>> ELSE <<>>
        bottom == detect_double_bottom(cs)
        isBottom == bottom.pattern = "double_bottom"
        pos2 == IF isBottom THEN execute_trade(pos1, "CALL", bottom).position
                ELSE pos1
        exec2 == IF isBottom THEN Append(exec1, Call(pos1, "CALL", bottom))
                 ELSE exec1
    IN  IF top.pattern = "error"
            THEN Result(cs, pos, top.err, branch, 1, NoPattern, NoPattern, <<>>)
        ELSE IF bottom.pattern = "error"
            THEN Result(cs, pos1, bottom.err, branch, 1, top, NoPattern, exec1)
        ELSE Result(cs, pos2, "none", branch, 1, top, bottom, exec2)

---------------------------------------------------------------------------
(* process_candles                                                         *)

RECURSIVE ParsedPrefix(_)
\* the candles appended before the first candle that fails to parse
ParsedPrefix(batch) ==
    IF batch = <<>> \/ ParseErr(Head(batch)) # "none" THEN <<>>
    ELSE <<Candle(Head(batch))>> \o ParsedPrefix(Tail(batch))

RECURSIVE BatchErr(_)
BatchErr(batch) ==
    IF batch = <<>> THEN "none"
    ELSE IF ParseErr(Head(batch)) # "none" THEN ParseErr(Head(batch))
    ELSE BatchErr(Tail(batch))

\* process_candles that also clears the position on a reload
process_candles_reset(cs, pos, batch) ==
    IF BatchErr(batch) # "none"
        THEN Result(ParsedPrefix(batch), None, BatchErr(batch), "load", 0,
                    NoPattern, NoPattern, <<>>)
    ELSE analyze_patterns(ParsedPrefix(batch), None, "load")

process_candles(cs, pos, batch) ==
    IF BatchErr(batch) # "none"
        THEN Result(ParsedPrefix(batch), pos, BatchErr(batch), "load", 0,
                    NoPattern, NoPattern, <<>>)
    ELSE analyze_patterns(ParsedPrefix(batch), pos, "load")

---------------------------------------------------------------------------
(* update_candle                                                           *)

\* update_candle that re-runs the analysis after an in-place replacement
update_candle_reanalyze(cs, pos, ohlc) ==
    IF ParseErr(ohlc) # "none"
        THEN Result(cs, pos, ParseErr(ohlc), "rejected", 0,
                    NoPattern, NoPattern, <<>>)
    ELSE
    LET new_candle == Candle(ohlc)
        appended == Append(cs, new_candle)
    IN  IF cs # <<>> /\ Last(cs).time = new_candle.time
            THEN analyze_patterns([cs EXCEPT ![Len(cs)] = new_candle], pos,
                                  "replace")
        ELSE analyze_patterns(
                 IF Len(appended) > lookback_period THEN Tail(appended)
                 ELSE appended,
                 pos, "append")

\* update_candle whose eviction is pop() (the newest) instead of pop(0)
update_candle_pop_newest(cs, pos, ohlc) ==
    IF ParseErr(ohlc) # "none"
        THEN Result(cs, pos, ParseErr(ohlc), "rejected", 0,
                    NoPattern, NoPattern, <<>>)
    ELSE
    LET new_candle == Candle(ohlc)
        appended == Append(cs, new_candle)
    IN  IF cs # <<>> /\ Last(cs).time = new_candle.time
            THEN Result([cs EXCEPT ![Len(cs)] = new_candle], pos, "none",
                        "replace", 0, NoPattern, NoPattern, <<>>)
        ELSE analyze_patterns(
                 IF Len(appended) > lookback_period
                     THEN SubSeq(appended, 1, Len(appended) - 1)
                 ELSE appended,
                 pos, "append")

\* update_candle that appends before it parses: a malformed update leaves
\* a candle with only its time in the window
update_candle_append_first(cs, pos, ohlc) ==
    IF ParseErr(ohlc) # "none"
        THEN Result(Append(cs, [time |-> ohlc.epoch, open |-> 0, high |-> 0,
                                low |-> 0, close |-> 0]),
                    pos, ParseErr(ohlc), "rejected", 0,
                    NoPattern, NoPattern, <<>>)
    ELSE
    LET new_candle == Candle(ohlc)
        appended == Append(cs, new_candle)
    IN  IF cs # <<>> /\ Last(cs).time = new_candle.time
            THEN Result([cs EXCEPT ![Len(cs)] = new_candle], pos, "none",
                        "replace", 0, NoPattern, NoPattern, <<>>)
        ELSE analyze_patterns(
                 IF Len(appended) > lookback_period THEN Tail(appended)
                 ELSE appended,
                 pos, "append")

\* update_candle that runs the detection pass before appending the candle
update_candle_stale_pass(cs, pos, ohlc) ==
    IF ParseErr(ohlc) # "none"
        THEN Result(cs, pos, ParseErr(ohlc), "rejected", 0,
                    NoPattern, NoPattern, <<>>)
    ELSE
    LET new_candle == Candle(ohlc)
        appended == Append(cs, new_candle)
        window == IF Len(appended) > lookback_period THEN Tail(appended)
                  ELSE appended
    IN  IF cs # <<>> /\ Last(cs).time = new_candle.time
            THEN Result([cs EXCEPT ![Len(cs)] = new_candle], pos, "none",
                        "replace", 0, NoPattern, NoPattern, <<>>)
        ELSE [analyze_patterns(IF cs = <<>> THEN window ELSE cs, pos, "append")
                  EXCEPT !.candles = window]

update_candle(cs, pos, ohlc) ==
    IF ParseErr(ohlc) # "none"
        THEN Result(cs, pos, ParseErr(ohlc), "rejected", 0,
                    NoPattern, NoPattern, <<>>)
    ELSE
    LET new_candle == Candle(ohlc)
        appended == Append(cs, new_candle)
    IN  IF cs # <<>> /\ Last(cs).time = new_candle.time
            THEN Result([cs EXCEPT ![Len(cs)] = new_candle], pos, "none",
                        "replace", 0, NoPattern, NoPattern, <<>>)
        ELSE analyze_patterns(
                 IF Len(appended) > lookback_period THEN Tail(appended)
                 ELSE appended,
                 pos, "append")

---------------------------------------------------------------------------
(* Messages the feed can deliver.                                          *)

Bar(t, b) ==
    [epoch |-> t, open |-> Num(b[3]), high |-> Num(b[1]),
     low |-> Num(b[2]), close |-> Num(b[3])]

\* a batch of candles at consecutive times from t0, from <<high, low, close>>
Feed(t0, bars) == [i \in 1..Len(bars) |-> Bar(t0 + i - 1, bars[i])]

TopHighs ==
    <<104, 106, 108, 110, 108, 106, 104, 102, 100, 102,
      104, 106, 108, 110, 108, 106, 104, 102, 100>>
BottomLows ==
    <<96, 94, 92, 90, 92, 94, 96, 98, 100, 98,
      96, 94, 92, 90, 92, 94, 96, 98, 100>>
ZeroHighs == <<0, 0, 0, 0, 0, 0, 0, 1, 2, 3, 4, 5, 6, 7, 6, 5, 4, 3, 2, 1>>
ExampleHighs == <<1, 2, 3, 10, 3, 2, 1, 1, 2, 3, 10, 3, 2, 1>>

TopBody == [i \in 1..Len(TopHighs) |->
               <<TopHighs[i], TopHighs[i] - 2, TopHighs[i] - 1>>]
BottomBody == [i \in 1..Len(BottomLows) |->
                  <<BottomLows[i] + 2, BottomLows[i], BottomLows[i] + 1>>]
LowBody == [i \in 1..Len(BottomLows) |->
               <<BottomLows[i] - 38, BottomLows[i] - 40, BottomLows[i] - 39>>]
RampBody(n) == [i \in 1..n |->
                   LET h == 104 - 2 * (n - i + 1) IN <<h, h - 2, h - 1>>]
ZeroBody == [i \in 1..Len(ZeroHighs) |->
                <<ZeroHighs[i], Max2(0, ZeroHighs[i] - 1),
                  Max2(0, ZeroHighs[i] - 1)>>]

Broken == <<98, 94, 95>>       \* closes below the neckline 98 of TopBody
Unbroken == <<100, 97, 99>>    \* closes above it

BEmpty == <<>>
BTop == Feed(1, TopBody \o <<Broken>>)
BPending == Feed(1, TopBody \o <<Unbroken>>)
BFull == Feed(1, RampBody(lookback_period - 20) \o TopBody \o <<Unbroken>>)
BOver == Feed(1, RampBody(lookback_period - 19) \o TopBody \o <<Unbroken>>)
BBottom == Feed(1, BottomBody \o <<(<<106, 102, 105>>)>>)
BBoth == Feed(1, LowBody \o TopBody \o <<(<<82, 78, 80>>)>>)
BZero == Feed(1, ZeroBody)
BBad == <<Bar(1, Unbroken), [Bar(2, Unbroken) EXCEPT !.low = Text],
          Bar(3, Unbroken)>>

Batches == {BEmpty, BTop, BPending, BFull, BOver, BBottom, BBoth, BZero, BBad}

\* the 14-candle example series followed by k candles closing at 0
ExampleWindow(k) ==
    Feed(1, [i \in 1..Len(ExampleHighs) |->
                <<ExampleHighs[i], 1, ExampleHighs[i]>>]
            \o [i \in 1..k |-> <<1, 0, 0>>])

ExampleBatches == {ExampleWindow(k) : k \in 1..MaxTail}

TickLow == <<97, 93, 94>>
TickHigh == <<122, 118, 120>>

NewTime(cs) == IF cs = <<>> THEN 1 ELSE Last(cs).time + 1

\* updates for the window cs: a new time, the time of the last candle, the
\* time of the first candle, and two malformed payloads
Ticks(cs) ==
    {Bar(NewTime(cs), b) : b \in {TickLow, TickHigh}}
    \cup (IF cs = <<>> THEN {}
          ELSE {Bar(Last(cs).time, b) : b \in {TickLow, TickHigh}})
    \cup (IF Len(cs) < 2 THEN {} ELSE {Bar(cs[1].time, TickLow)})
    \cup {[Bar(NewTime(cs), TickLow) EXCEPT !.close = Text],
          [Bar(NewTime(cs), TickHigh) EXCEPT !.high = Missing]}

\* the stream of SpecStream: the candles of BTop, repeated
StreamBar(t) == (TopBody \o <<Broken>>)[((t - 1) % 20) + 1]

StreamTicks(h) ==
    {Bar(NewTime(h), StreamBar(NewTime(h)))}
    \cup (IF h # <<>> /\ Last(h).time - Len(h) < MaxSkips
          THEN {Bar(NewTime(h) + 1, StreamBar(NewTime(h) + 1))} ELSE {})

---------------------------------------------------------------------------
(* The state machine: on_message dispatches each message to its handler.   *)

Event(op, arg, r) ==
    [op |-> op, arg |-> arg, err |-> r.err, branch |-> r.branch,
     passes |-> r.passes, top |-> r.top, bottom |-> r.bottom,
     exec |-> r.exec, prev |-> ev.branch]

Init ==
    /\ candles = <<>>
    /\ position = None
    /\ ev = [op |-> "init", arg |-> <<>>, err |-> "none", branch |-> "none",
             passes |-> 0, top |-> NoPattern, bottom |-> NoPattern,
             exec |-> <<>>, prev |-> "none"]
    /\ hist = <<>>
    /\ steps = 0

\* on_message with a 'candles' payload
ProcessCandles(batch) ==
    LET r == process_candles(candles, position, batch)
    IN  /\ candles' = r.candles
        /\ position' = r.position
        /\ ev' = Event("candles", batch, r)
        /\ hist' = hist
        /\ steps' = steps + 1

\* on_message with an 'ohlc' payload
UpdateCandle(ohlc) ==
    LET r == update_candle(candles, position, ohlc)
    IN  /\ candles' = r.candles
        /\ position' = r.position
        /\ ev' = Event("ohlc", ohlc, r)
        /\ hist' = IF r.branch = "rejected" THEN hist
                   ELSE Append(hist, Candle(ohlc))
        /\ steps' = steps + 1

Next ==
    \/ \E batch \in Batches : steps < MaxSteps /\ ProcessCandles(batch)
    \/ \E ohlc \in Ticks(candles) : steps < MaxSteps /\ UpdateCandle(ohlc)

Spec == Init /\ [][Next]_vars

NextExample ==
    \/ \E batch \in ExampleBatches : steps < MaxSteps /\ ProcessCandles(batch)
    \/ \E ohlc \in Ticks(candles) : steps < MaxSteps /\ UpdateCandle(ohlc)

SpecExample == Init /\ [][NextExample]_vars

NextStream ==
    \E ohlc \in StreamTicks(hist) : steps < MaxStream /\ UpdateCandle(ohlc)

SpecStream == Init /\ [][NextStream]_vars

---------------------------------------------------------------------------
(* Windows for the detector: tent-shaped highs (or pit-shaped lows) around *)
(* given extrema, closed by a last candle with a chosen close.             *)

MaxOf(S) == CHOOSE m \in S : \A x \in S : x <= m
MinOf(S) == CHOOSE m \in S : \A x \in S : m <= x

\* extrema: a sequence of <<index, price>>; i: a 0-based index
TentHigh(extrema, slope, i) ==
    MaxOf({extrema[k][2] - slope * Abs(i - extrema[k][1]) :
              k \in 1..Len(extrema)})
PitLow(extrema, slope, i) ==
    MinOf({extrema[k][2] + slope * Abs(i - extrema[k][1]) :
              k \in 1..Len(extrema)})

\* n - 1 candles <<high, low, close>> with low = high - wick
TopShape(extrema, slope, wick, n) ==
    [i \in 1..(n - 1) |->
        LET h == TentHigh(extrema, slope, i - 1) IN <<h, h - wick, h - wick>>]
BottomShape(extrema, slope, wick, n) ==
    [i \in 1..(n - 1) |->
        LET l == PitLow(extrema, slope, i - 1) IN <<l + wick, l, l + wick>>]

Closing(c) == <<c + 1, c - 1, c>>

\* the lowest low (highest high) of the shape between two 0-based indices
ShapeFloor(shape, a, b) == MinOf({shape[i + 1][2] : i \in a..b})
ShapeCeiling(shape, a, b) == MaxOf({shape[i + 1][1] : i \in a..b})

Gaps == {min_candles_between - 1, min_candles_between,
         min_candles_between + 1}
PricePairs ==
    {<<110, 110>>, <<500, 501>>, <<500, 499>>, <<499, 500>>,
     <<1000, 1005>>, <<1000, 1002>>, <<1000, 1003>>}
Wicks == {0, 2}
CloseOffsets == {-1, 0, 1}
Lengths == {MinCandles - 1, MinCandles}

\* two peaks at indices 3 and 3 + gap, last close = neckline + dc
TopWindow(gap, pp, wick, dc, n) ==
    LET shape == TopShape(<<(<<3, pp[1]>>), (<<3 + gap, pp[2]>>)>>, 2, wick, n)
    IN  Feed(1, shape \o <<Closing(ShapeFloor(shape, 3, 3 + gap) + dc)>>)

\* two troughs at indices 3 and 3 + gap, last close = neckline + dc
BottomWindow(gap, pp, wick, dc, n) ==
    LET shape ==
            BottomShape(<<(<<3, pp[1]>>), (<<3 + gap, pp[2]>>)>>, 2, wick, n)
    IN  Feed(1, shape \o <<Closing(ShapeCeiling(shape, 3, 3 + gap) + dc)>>)

TopWindows ==
    {TopWindow(g, pp, w, dc, n) :
        g \in Gaps, pp \in PricePairs, w \in Wicks, dc \in CloseOffsets,
        n \in Lengths}
BottomWindows ==
    {BottomWindow(g, pp, w, dc, n) :
        g \in Gaps, pp \in PricePairs, w \in Wicks, dc \in CloseOffsets,
        n \in Lengths}

\* three peaks A, B, C; the last close is set against the two necklines
TriplePrices ==
    {<<500, 500, 500>>, <<500, 501, 500>>, <<500, 520, 500>>,
     <<500, 500, 520>>, <<520, 500, 500>>}
TripleGaps == {<<10, 14>>, <<14, 10>>, <<10, 10>>}

TripleWindow(ppp, gg, pick, dc) ==
    LET b == 3 + gg[1]
        c == b + gg[2]
        shape == TopShape(<<(<<3, ppp[1]>>), (<<b, ppp[2]>>), (<<c, ppp[3]>>)>>,
                          5, 2, c + 5)
        neck == IF pick = 1 THEN ShapeFloor(shape, 3, b)
                ELSE ShapeFloor(shape, b, c)
    IN  Feed(1, shape \o <<Closing(neck + dc)>>)

TripleWindows ==
    {TripleWindow(ppp, gg, pick, dc) :
        ppp \in TriplePrices, gg \in TripleGaps, pick \in {1, 2},
        dc \in CloseOffsets}

\* candles with low above high: two peaks at 110 whose lows are at 122
InvertedWindows ==
    {TopWindow(min_candles_between, <<110, 110>>, -12, dc, MinCandles) :
        dc \in CloseOffsets}

DetectBatches ==
    TopWindows \cup BottomWindows \cup TripleWindows \cup InvertedWindows
    \cup {BBoth}

NextDetect ==
    \/ \E batch \in DetectBatches : steps = 0 /\ ProcessCandles(batch)
    \/ \E ohlc \in Ticks(candles) :
           0 < steps /\ steps < MaxDetectSteps /\ UpdateCandle(ohlc)

SpecDetect == Init /\ [][NextDetect]_vars

---------------------------------------------------------------------------
(* Claims.                                                                 *)

PositionOf(call) ==
    [type |-> call.type, entry |-> call.signal.entry,
     stop_loss |-> call.signal.stop_loss,
     take_profit |-> call.signal.take_profit]

\* C1: in every reachable state the window holds at most lookback_period
\* candles.  (Stated as claimed; process_candles does not enforce it.)
C1_WindowWithinLookback == Len(candles) <= lookback_period

\* C2: when execute_trade is called twice in succession with the position
\* initially empty - both calls of one detection pass, or the executing call
\* of one pass and the first call of the next message's pass - the first call
\* is executed and sets the position to its signal's fields, the second is
\* skipped, raises nothing and leaves the position as the first set it.
C2_SecondTradeSkipped ==
    [][/\ (position = None /\ Len(ev'.exec) = 2) =>
            /\ ev'.exec[1].outcome = "executed"
            /\ ev'.exec[2].outcome = "skipped_existing_position"
            /\ ev'.err = "none"
            /\ position' = PositionOf(ev'.exec[1])
       /\ (/\ ev.exec # <<>>
           /\ ev.exec[1].outcome = "executed"
           /\ ev'.exec # <<>>) =>
            /\ position = PositionOf(ev.exec[1])
            /\ ev'.exec[1].outcome = "skipped_existing_position"
            /\ ev'.err = "none"
            /\ position' = position]_vars

\* C2 witness: one pass called execute_trade twice, PUT executed, CALL skipped.
C2_Witness ==
    /\ Len(ev.exec) = 2
    /\ ev.exec[1].outcome = "executed"
    /\ ev.exec[2].outcome = "skipped_existing_position"
    /\ position = PositionOf(ev.exec[1])
    /\ position.type = "PUT"

\* C3: once a position is open, every later message leaves it open and
\* unchanged, and every signal detected while it is open is suppressed.
C3_PositionNeverChanges ==
    [][position # None =>
        /\ position' = position
        /\ \A i \in 1..Len(ev'.exec) :
               ev'.exec[i].outcome = "skipped_existing_position"]_vars

\* C3 witness: an update detected a signal different from the open position
\* and it was suppressed.
C3_Witness ==
    /\ ev.op = "ohlc"
    /\ position # None
    /\ ev.exec # <<>>
    /\ ev.exec[1].outcome = "skipped_existing_position"
    /\ ev.exec[1].signal.entry # position.entry

\* C4: a well-formed update whose time equals the time of the last candle of
\* a non-empty window replaces that candle in place: same length, every other
\* candle unchanged, no detection pass, no trade call, position unchanged.
C4_ReplaceInPlace ==
    [][(/\ ev'.op = "ohlc"
        /\ ParseErr(ev'.arg) = "none"
        /\ candles # <<>>
        /\ Last(candles).time = ev'.arg.epoch) =>
            /\ candles' = [candles EXCEPT ![Len(candles)] = Candle(ev'.arg)]
            /\ ev'.passes = 0
            /\ ev'.exec = <<>>
            /\ ev'.err = "none"
            /\ position' = position]_vars

\* C4 witness: after an in-place replacement the window confirms a double
\* top, yet no position was opened.
C4_Witness ==
    /\ ev.branch = "replace"
    /\ position = None
    /\ detect_double_top(candles).pattern = "double_top"

StrictlyIncreasing(h) ==
    \A i \in 1..(Len(h) - 1) : h[i].time < h[i + 1].time

\* C5: from an empty window, after n updates with strictly increasing times
\* the window is exactly the last min(n, lookback_period) of them in arrival
\* order, and never longer than lookback_period.
C5_WindowIsLastUpdates ==
    /\ StrictlyIncreasing(hist)
    /\ Len(candles) = Min2(Len(hist), lookback_period)
    /\ candles = SubSeq(hist, Len(hist) - Len(candles) + 1, Len(hist))

\* C5 witness: two candles have been evicted, after a gap in the times.
C5_Witness ==
    /\ Len(hist) = lookback_period + 2
    /\ Len(candles) = lookback_period
    /\ candles[1] = hist[3]
    /\ Last(hist).time > Len(hist)

\* C6: the window holds at most one candle per time value.  (Stated as
\* claimed; update_candle compares the new time with the last candle only.)
C6_OneCandlePerTime ==
    \A i, j \in 1..Len(candles) :
        candles[i].time = candles[j].time => i = j

\* C7: the candles of the window are ordered by non-decreasing time.
\* (Stated as claimed; update_candle appends whatever time arrives.)
C7_TimeOrdered ==
    \A i \in 1..(Len(candles) - 1) : candles[i].time <= candles[i + 1].time

\* C8: an update with a missing or non-numeric open, high, low or close is
\* rejected with an error and leaves window and position as they were; the
\* well-formed update that follows a rejected one is not rejected and its
\* candle becomes the last candle of the window.
C8_MalformedRejected ==
    [][/\ (ev'.op = "ohlc" /\ ParseErr(ev'.arg) # "none") =>
            /\ ev'.err \in {"KeyError", "ValueError"}
            /\ candles' = candles
            /\ position' = position
            /\ ev'.passes = 0
       /\ (/\ ev.branch = "rejected"
           /\ ev'.op = "ohlc"
           /\ ParseErr(ev'.arg) = "none") =>
            /\ ev'.err \notin {"KeyError", "ValueError"}
            /\ ev'.branch \in {"append", "replace"}
            /\ Last(candles') = Candle(ev'.arg)]_vars

\* C8 witness: right after a rejected update on a loaded window, a
\* well-formed update was appended and its detection pass ran.
C8_Witness ==
    /\ ev.prev = "rejected"
    /\ ev.branch = "append"
    /\ ev.passes = 1
    /\ Len(candles) > 1
    /\ Last(candles) = Candle(ev.arg)

\* C9: loading a well-formed batch, the empty one included, completes
\* without error and leaves the window equal to the batch.  (Stated as
\* claimed; analyze_patterns reads candles[-1] of the window it was given.)
C9_LoadSucceeds ==
    (ev.op = "candles" /\ BatchErr(ev.arg) = "none") =>
        /\ ev.err = "none"
        /\ candles = [i \in 1..Len(ev.arg) |-> Candle(ev.arg[i])]

\* what C10 is about: a pass over a window that starts with the example
\* series and whose last candle closes below the neckline of peaks 3 and 10
ExampleCase ==
    /\ ev.passes = 1
    /\ Len(candles) > Len(ExampleHighs)
    /\ SubSeq(Highs(candles), 1, Len(ExampleHighs)) = ExampleHighs
    /\ Last(candles).close < MinOver(Lows(candles), 3, 10)

\* C10 as claimed: the peak finder returns indices 3 and 10 on the example
\* series, and in the example case the detector emits a double_top signal
\* with peak1 = peak2 = 10.
C10_ExampleEmitsDoubleTop ==
    /\ find_peaks(ExampleHighs, Order) = <<3, 10>>
    /\ ExampleCase =>
           /\ ev.top.pattern = "double_top"
           /\ ev.top.peak1 = 10
           /\ ev.top.peak2 = 10

\* C10 amended: the peak finder returns indices 3 and 10 on the example
\* series, and in the example case the detector emits no double_top signal
\* (the peaks are 7 candles apart, fewer than min_candles_between), and so
\* no position is opened.
C10_ExampleNoSignal ==
    /\ find_peaks(ExampleHighs, Order) = <<3, 10>>
    /\ ExampleCase =>
           /\ ev.top = NoPattern
           /\ ev.exec = <<>>
           /\ position = None

\* C10 witness: the example case on a window of at least 20 candles, where
\* the pair (3, 10) is scanned and rejected.
C10_Witness ==
    /\ ExampleCase
    /\ Len(candles) >= MinCandles
    /\ At(find_peaks(Highs(candles), Order), 0) = 3
    /\ At(find_peaks(Highs(candles), Order), 1) = 10
    /\ ev.top = NoPattern

---------------------------------------------------------------------------
(* find_peaks and find_troughs applied to a series on its own: ev holds    *)
(* the arguments, then the two returned index lists.                       *)

SeriesValues == {0, 1, 2}
Ramp(n) == [i \in 1..n |-> i]
Series ==
    UNION {[1..n -> SeriesValues] : n \in 0..MaxLen}
        \cup {Ramp(n) : n \in 0..MaxLen}
        \cup {ExampleHighs}
Orders == 1..MaxOrder

InitPeaks ==
    /\ candles = <<>>
    /\ position = None
    /\ hist = <<>>
    /\ steps = 0
    /\ ev \in {[op |-> "series", data |-> d, order |-> o] :
                  d \in Series, o \in Orders}

FindExtrema ==
    /\ ev.op = "series"
    /\ ev' = [op |-> "extrema", data |-> ev.data, order |-> ev.order,
              peaks |-> find_peaks(ev.data, ev.order),
              troughs |-> find_troughs(ev.data, ev.order)]
    /\ UNCHANGED <<candles, position, hist, steps>>

NextPeaks == FindExtrema
SpecPeaks == InitPeaks /\ [][NextPeaks]_vars

---------------------------------------------------------------------------
(* The detector's contract, stated on the window itself.                   *)

IsPeak(cs, i) ==
    /\ Order <= i
    /\ i < Len(cs) - Order
    /\ \A j \in 1..Order : /\ cs[i + 1].high >= cs[i + 1 - j].high
                           /\ cs[i + 1].high >= cs[i + 1 + j].high

IsTrough(cs, i) ==
    /\ Order <= i
    /\ i < Len(cs) - Order
    /\ \A j \in 1..Order : /\ cs[i + 1].low <= cs[i + 1 - j].low
                           /\ cs[i + 1].low <= cs[i + 1 + j].low

ConsecutivePeaks(cs, a, b) ==
    /\ a < b
    /\ IsPeak(cs, a)
    /\ IsPeak(cs, b)
    /\ \A k \in (a + 1)..(b - 1) : ~IsPeak(cs, k)

ConsecutiveTroughs(cs, a, b) ==
    /\ a < b
    /\ IsTrough(cs, a)
    /\ IsTrough(cs, b)
    /\ \A k \in (a + 1)..(b - 1) : ~IsTrough(cs, k)

Indices(cs) == 0..(Len(cs) - 1)
LowestLow(cs, a, b) == MinOf({cs[i + 1].low : i \in a..b})
HighestHigh(cs, a, b) == MaxOf({cs[i + 1].high : i \in a..b})
RelDiffWithin(p1, p2) ==
    p1 > 0 /\ Abs(p1 - p2) * ToleranceDen <= ToleranceNum * p1

C12_TopSignalFromValidPair ==
    /\ ev.top.pattern = "double_top" =>
           \E a, b \in Indices(candles) :
               /\ ConsecutivePeaks(candles, a, b)
               /\ b - a >= min_candles_between
               /\ candles[a + 1].high = ev.top.peak1
               /\ candles[b + 1].high = ev.top.peak2
               /\ RelDiffWithin(ev.top.peak1, ev.top.peak2)
               /\ ev.top.neckline = LowestLow(candles, a, b)
               /\ Last(candles).close < ev.top.neckline
    /\ (/\ ev.passes = 1
        /\ \A a, b \in Indices(candles) :
               ConsecutivePeaks(candles, a, b) =>
                   ~RelDiffWithin(candles[a + 1].high, candles[b + 1].high))
           => ev.top.pattern # "double_top"

\* C12 witness: a signal from peaks 500 and 499 (0.2% apart) exactly
\* min_candles_between candles apart.
C12_Witness ==
    /\ ev.top.pattern = "double_top"
    /\ ev.top.peak1 = 500
    /\ ev.top.peak2 = 499
    /\ ConsecutivePeaks(candles, 3, 3 + min_candles_between)
    /\ Last(candles).close = ev.top.neckline - 1

\* the indices a series' peak (trough) list must hold
PeakSet(d, o) ==
    {i \in 0..(Len(d) - 1) :
        /\ o <= i
        /\ i < Len(d) - o
        /\ \A j \in 1..o : d[i + 1] >= d[i + 1 - j] /\ d[i + 1] >= d[i + 1 + j]}

TroughSet(d, o) ==
    {i \in 0..(Len(d) - 1) :
        /\ o <= i
        /\ i < Len(d) - o
        /\ \A j \in 1..o : d[i + 1] <= d[i + 1 - j] /\ d[i + 1] <= d[i + 1 + j]}

Ascending(s) == \A k \in 1..(Len(s) - 1) : s[k] < s[k + 1]
ListsExactly(s, S) == Ascending(s) /\ {s[k] : k \in 1..Len(s)} = S

\* C13: for every series and order, find_peaks returns in increasing order
\* exactly the indices i with order <= i < length - order whose value is >=
\* the values at i-j and i+j for all j in 1..order (find_troughs with <=);
\* it returns the empty sequence when length <= 2*order, never one of the
\* last `order` indices, and the empty sequence on a strictly increasing
\* series.
C13_ExtremaExact ==
    ev.op = "extrema" =>
        /\ ListsExactly(ev.peaks, PeakSet(ev.data, ev.order))
        /\ ListsExactly(ev.troughs, TroughSet(ev.data, ev.order))
        /\ Len(ev.data) <= 2 * ev.order =>
               (ev.peaks = <<>> /\ ev.troughs = <<>>)
        /\ \A k \in 1..Len(ev.peaks) :
               ev.peaks[k] < Len(ev.data) - ev.order
        /\ \A k \in 1..Len(ev.troughs) :
               ev.troughs[k] < Len(ev.data) - ev.order
        /\ Ascending(ev.data) => ev.peaks = <<>>

\* C13 witness: [1,2,3,4,5,6,7] with order 3 has been searched and has no
\* peak.
C13_Witness ==
    /\ ev.op = "extrema"
    /\ ev.data = <<1, 2, 3, 4, 5, 6, 7>>
    /\ ev.order = 3
    /\ ev.peaks = <<>>
    /\ ev.troughs = <<>>

\* C14: whenever a detection pass runs on a window with fewer than 20
\* candles, it reports no pattern of either kind, raises no error, and
\* leaves the position unchanged.
C14_ShortWindowQuiet ==
    [][(ev'.passes = 1 /\ Len(candles') < MinCandles) =>
           /\ ev'.err = "none"
           /\ ev'.top = NoPattern
           /\ ev'.bottom = NoPattern
           /\ position' = position]_vars

\* the same statement for the windows of 1..19 candles only
ShortNonEmptyQuiet ==
    [][(ev'.passes = 1 /\ candles' # <<>> /\ Len(candles') < MinCandles) =>
           /\ ev'.err = "none"
           /\ ev'.top = NoPattern
           /\ ev'.bottom = NoPattern
           /\ position' = position]_vars

NonNegative(cs) ==
    \A i \in 1..Len(cs) :
        cs[i].open >= 0 /\ cs[i].high >= 0 /\ cs[i].low >= 0 /\ cs[i].close >= 0

\* C15: for every window of candles with non-negative prices, including
\* candles with high < low or with a high or low of 0, a detection pass
\* ends with a result (a signal or no pattern) for each pattern kind and
\* never with an unhandled failure such as a division by zero.
C15_PassNeverCrashes ==
    (ev.passes = 1 /\ candles # <<>> /\ NonNegative(candles)) =>
        /\ ev.err = "none"
        /\ ev.top.pattern \in {"double_top", "none"}
        /\ ev.bottom.pattern \in {"double_bottom", "none"}

\* C16: each well-formed upsert that appends a candle triggers exactly one
\* detection pass, run after the append and any eviction over the resulting
\* window, whose last candle is the appended one; an upsert that replaces
\* the last candle in place triggers none.
C16_OnePassPerAppend ==
    [][(ev'.op = "ohlc" /\ ParseErr(ev'.arg) = "none") =>
          IF candles # <<>> /\ Last(candles).time = ev'.arg.epoch
          THEN /\ ev'.passes = 0
               /\ ev'.top = NoPattern
               /\ ev'.bottom = NoPattern
               /\ ev'.exec = <<>>
               /\ Len(candles') = Len(candles)
          ELSE /\ ev'.passes = 1
               /\ candles' =
                      IF Len(candles) + 1 > lookback_period
                      THEN Tail(Append(candles, Candle(ev'.arg)))
                      ELSE Append(candles, Candle(ev'.arg))
               /\ Last(candles') = Candle(ev'.arg)
               /\ ev'.err = "none" =>
                      /\ ev'.top = detect_double_top(candles')
                      /\ ev'.bottom = detect_double_bottom(candles')]_vars

\* C16 witness: an append to a full window evicted the oldest candle and the
\* pass over the resulting window, ending in the appended candle, confirmed
\* a double top that the window before the append did not show.
C16_Witness ==
    /\ ev.op = "ohlc"
    /\ ev.branch = "append"
    /\ ev.prev = "load"
    /\ ev.passes = 1
    /\ Len(candles) = lookback_period
    /\ candles[1].time = 2
    /\ Last(candles) = Candle(ev.arg)
    /\ ev.top.pattern = "double_top"
    /\ ev.top.entry = Candle(ev.arg).close

\* the consecutive peak pairs of cs that pass the gap, tolerance and
\* neckline-break checks
PassingPeakPairs(cs) ==
    {q \in Indices(cs) \X Indices(cs) :
        /\ ConsecutivePeaks(cs, q[1], q[2])
        /\ q[2] - q[1] >= min_candles_between
        /\ RelDiffWithin(cs[q[1] + 1].high, cs[q[2] + 1].high)
        /\ Last(cs).close < LowestLow(cs, q[1], q[2])}

LatestPair(Q) == CHOOSE q \in Q : \A r \in Q : r[1] <= q[1]

ExpectedTop(cs) ==
    IF PassingPeakPairs(cs) = {} THEN NoPattern
    ELSE LET q == LatestPair(PassingPeakPairs(cs))
             p1 == cs[q[1] + 1].high
             p2 == cs[q[2] + 1].high
             neckline == LowestLow(cs, q[1], q[2])
         IN  [pattern |-> "double_top", peak1 |-> p1, peak2 |-> p2,
              neckline |-> neckline, entry |-> Last(cs).close,
              stop_loss |-> Max2(p1, p2),
              take_profit |-> neckline - (Max2(p1, p2) - neckline)]

\* C17: on a window of at least 20 candles detect_double_top returns the
\* signal of the latest pair of consecutive peaks that passes the gap,
\* tolerance and neckline-break checks, and returns no pattern exactly when
\* no consecutive pair passes all three.
C17_LatestConsecutivePair ==
    (ev.passes = 1 /\ Len(candles) >= MinCandles) =>
        detect_double_top(candles) = ExpectedTop(candles)

C19_BothPatternsPutFirst ==
    [][(/\ ev'.passes = 1
        /\ detect_double_top(candles').pattern = "double_top"
        /\ detect_double_bottom(candles').pattern = "double_bottom") =>
            /\ ev'.top = detect_double_top(candles')
            /\ ev'.bottom = detect_double_bottom(candles')
            /\ Len(ev'.exec) = 2
            /\ ev'.exec[1].type = "PUT"
            /\ ev'.exec[1].signal = ev'.top
            /\ ev'.exec[2].type = "CALL"
            /\ ev'.exec[2].signal = ev'.bottom
            /\ position = None =>
                   /\ ev'.exec[1].outcome = "executed"
                   /\ ev'.exec[2].outcome = "skipped_existing_position"
                   /\ position'.type = "PUT"
                   /\ position'.entry = ev'.top.entry
                   /\ position'.stop_loss = ev'.top.stop_loss
                   /\ position'.take_profit = ev'.top.take_profit]_vars

\* C19 witness: a load confirmed both patterns; the position is the PUT of
\* the double top and the CALL of the double bottom was skipped.
C19_Witness ==
    /\ ev.op = "candles"
    /\ ev.top.pattern = "double_top"
    /\ ev.bottom.pattern = "double_bottom"
    /\ ev.exec[1].type = "PUT"
    /\ ev.exec[2].type = "CALL"
    /\ ev.exec[2].signal = ev.bottom
    /\ ev.exec[2].outcome = "skipped_existing_position"
    /\ position.type = "PUT"
    /\ position.stop_loss = ev.top.stop_loss

LowBelowHigh(cs) == \A i \in 1..Len(cs) : cs[i].low <= cs[i].high

\* C20: for every window whose candles all satisfy low <= high, an emitted
\* double_top signal has take_profit <= neckline <= stop_loss and entry <
\* neckline, an emitted double_bottom signal has stop_loss <= neckline <=
\* take_profit and entry > neckline, and a position opened from the window
\* has its entry strictly on the profit side of its stop_loss (below it for
\* a PUT, above it for a CALL).
C20_LevelsOrdered ==
    LowBelowHigh(candles) =>
        /\ ev.top.pattern = "double_top" =>
               /\ ev.top.take_profit <= ev.top.neckline
               /\ ev.top.neckline <= ev.top.stop_loss
               /\ ev.top.entry < ev.top.neckline
        /\ ev.bottom.pattern = "double_bottom" =>
               /\ ev.bottom.stop_loss <= ev.bottom.neckline
               /\ ev.bottom.neckline <= ev.bottom.take_profit
               /\ ev.bottom.entry > ev.bottom.neckline
        /\ \A i \in 1..Len(ev.exec) :
               ev.exec[i].outcome = "executed" =>
                   /\ position.type = ev.exec[i].type
                   /\ position.type = "PUT" =>
                          position.entry < position.stop_loss
                   /\ position.type = "CALL" =>
                          position.entry > position.stop_loss

\* the same ordering without the premise low <= high
LevelsOrderedAnyWindow ==
    ev.top.pattern = "double_top" =>
        /\ ev.top.take_profit <= ev.top.neckline
        /\ ev.top.neckline <= ev.top.stop_loss

\* C20 witness: a CALL position was opened from a double bottom of a window
\* with low <= high throughout, its wicks reaching the neckline's side.
C20_Witness ==
    /\ LowBelowHigh(candles)
    /\ \E i \in 1..Len(candles) : candles[i].low < candles[i].high
    /\ ev.bottom.pattern = "double_bottom"
    /\ ev.bottom.stop_loss < ev.bottom.neckline
    /\ Len(ev.exec) = 1
    /\ ev.exec[1].outcome = "executed"
    /\ position.type = "CALL"
    /\ position.stop_loss < position.entry

=============================================================================
